---- MODULE Spec2Model ----
(***************************************************************************)
(* Model of tests/pymods/yaml_tools/register_tag.py: the decorators that   *)
(* register classes as YAML tags (yaml_map, yaml_seq, yaml_scalar,         *)
(* yaml_auto_map, yaml_implicit_scalar, yaml_not_available_tag), the       *)
(* attribute normalizer normalize_attr and the dual-access record          *)
(* BaseDictWrapper / AutoMap.                                              *)
(*                                                                         *)
(* Python strings that the code inspects character by character (labels,   *)
(* scalar texts, class names, tags) are sequences of one-character         *)
(* strings.  Four specifications share the variables:                      *)
(*   SpecNorm  normalize_attr applied to every bounded label               *)
(*   SpecReg   the tag registry, the implicit resolver and the decoding    *)
(*   SpecTag   the builders alone, over types of every naming              *)
(*   SpecRec   the heap of dictionaries and records                        *)
(***************************************************************************)
EXTENDS Integers, Sequences, FiniteSets, TLC

VARIABLES
    label,                  \* SpecNorm: the string handed to normalize_attr
    nlabel,                 \* SpecNorm: the successive results of normalize_attr
    yaml_constructors,      \* SpecReg: Loader.yaml_constructors, tag -> constructor
    yaml_representers,      \* SpecReg: Dumper.yaml_representers, class -> representer
    yaml_implicit_resolvers,\* SpecReg: Resolver.yaml_implicit_resolvers, first char -> list
    outcome,                \* SpecReg: what the last builder call or decode did
    heap,                   \* SpecRec: object id -> dictionary or record
    ret                     \* SpecRec: what the last record operation returned

normVars == <<label, nlabel>>
regVars == <<yaml_constructors, yaml_representers, yaml_implicit_resolvers, outcome>>
recVars == <<heap, ret>>
vars == <<label, nlabel, yaml_constructors, yaml_representers,
          yaml_implicit_resolvers, outcome, heap, ret>>

None == "None"

\* the absent value of a string-valued attribute (Python strings are
\* sequences of one-character strings, which this is not)
NoStr == <<"None">>

\* the absent value where a record is expected
NoRec == [none |-> TRUE]

\* no operation has run yet
NoOutcome == [op |-> "none"]

(***************************************************************************)
(* Bounds of the model.                                                    *)
(***************************************************************************)
MaxLen == 3

(***************************************************************************)
(* Strings.                                                                *)
(***************************************************************************)
\* the characters [a-zA-Z0-9_] of re_word that the model draws from
WordChars == {"a", "b", "c", "1", "_"}

\* characters outside the class of re_word
OtherChars == {" ", "/", ".", "-", "!", "="}

RECURSIVE Join(_, _)
\* sep.join(parts)
Join(sep, parts) ==
    IF parts = <<>> THEN <<>>
    ELSE IF Len(parts) = 1 THEN parts[1]
    ELSE parts[1] \o sep \o Join(sep, Tail(parts))

RECURSIVE FindAllFrom(_, _, _, _)
\* scan s from position i; cur is the run being read, acc the runs found
FindAllFrom(s, i, cur, acc) ==
    IF i > Len(s)
    THEN IF cur = <<>> THEN acc ELSE Append(acc, cur)
    ELSE IF s[i] \in WordChars
         THEN FindAllFrom(s, i + 1, Append(cur, s[i]), acc)
         ELSE FindAllFrom(s, i + 1, <<>>,
                          IF cur = <<>> THEN acc ELSE Append(acc, cur))

RECURSIVE FindAllCharsFrom(_, _, _)
\* the mutant of re_word without its + quantifier: one match per character
FindAllCharsFrom(s, i, acc) ==
    IF i > Len(s) THEN acc
    ELSE FindAllCharsFrom(s, i + 1,
                          IF s[i] \in WordChars THEN Append(acc, <<s[i]>>) ELSE acc)

re_word_findall_nochar_plus(s) == FindAllCharsFrom(s, 1, <<>>)

\* re_word.findall(string): the maximal runs of [a-zA-Z0-9_], left to right
re_word_findall(s) == FindAllFrom(s, 1, <<>>, <<>>)

\* normalize_attr(string)
normalize_attr(s) == Join(<<"_">>, re_word_findall(s))

(***************************************************************************)
(* The labels of at most MaxLen characters.                                *)
(***************************************************************************)
NormChars == {"a", "1", "_", " ", "/"}

RECURSIVE StringsUpTo(_, _)
StringsUpTo(chars, n) ==
    IF n = 0 THEN {<<>>}
    ELSE LET shorter == StringsUpTo(chars, n - 1)
         IN shorter \cup {Append(s, c) : s \in {t \in shorter : Len(t) = n - 1}, c \in chars}

NormLabels == StringsUpTo(NormChars, MaxLen)

(***************************************************************************)
(* Domain types.  A class is described by what the decorators read of it:  *)
(* its __name__, the value of a private class attribute __yaml_tag if the  *)
(* class body declares one, the from_*/to_* methods it exposes, whether    *)
(* its from_* methods are classmethods, and its yaml_pattern.              *)
(***************************************************************************)
Str_yaml_tag == <<"_", "_", "y", "a", "m", "l", "_", "t", "a", "g">>

RECURSIVE lstrip_underscore(_)
\* name.lstrip('_')
lstrip_underscore(s) ==
    IF s # <<>> /\ s[1] = "_" THEN lstrip_underscore(Tail(s)) ELSE s

\* the name under which Python stores the private attribute `ident` declared
\* in the body of a class called clsname (a class name made of underscores
\* only is not mangled)
PyMangle(clsname, ident) ==
    IF lstrip_underscore(clsname) = <<>> THEN ident
    ELSE <<"_">> \o lstrip_underscore(clsname) \o ident

\* yaml_tag_mangle(Cls)
yaml_tag_mangle(Cls) == <<"_">> \o lstrip_underscore(Cls.name) \o Str_yaml_tag

\* getattr(Cls, attr, default), for the one class attribute the builders read
getattr_default(Cls, attr, default) ==
    IF Cls.yaml_tag # NoStr /\ attr = PyMangle(Cls.name, Str_yaml_tag)
    THEN Cls.yaml_tag
    ELSE default

\* tag = '!' + getattr(Cls, yaml_tag_mangle(Cls), Cls.__name__)
TagOf(Cls) == <<"!">> \o getattr_default(Cls, yaml_tag_mangle(Cls), Cls.name)

(***************************************************************************)
(* Regular expressions: a sequence of atoms (a character class with a      *)
(* quantifier), optionally followed by the anchor $.                       *)
(***************************************************************************)
Digits == {"1"}
Letters == {"a"}

Atom(chars, q) == [chars |-> chars, q |-> q]

Regex(atoms, end) == [atoms |-> atoms, end |-> end]

RECURSIVE RunLen(_, _, _)
\* how many characters of text from position i on belong to chars
RunLen(chars, text, i) ==
    IF i <= Len(text) /\ text[i] \in chars THEN 1 + RunLen(chars, text, i + 1) ELSE 0

RECURSIVE MatchEnds(_, _, _, _)
\* the positions at which a match of atoms[k..] that starts at text[i] can end
MatchEnds(atoms, k, text, i) ==
    IF k > Len(atoms) THEN {i}
    ELSE LET run == RunLen(atoms[k].chars, text, i)
             counts == IF atoms[k].q = "one" THEN (IF run >= 1 THEN {1} ELSE {})
                       ELSE IF atoms[k].q = "plus" THEN 1..run
                       ELSE 0..run
         IN UNION {MatchEnds(atoms, k + 1, text, i + n) : n \in counts}

\* regexp.fullmatch(text): the whole text must be matched
re_fullmatch(regexp, text) ==
    (Len(text) + 1) \in MatchEnds(regexp.atoms, 1, text, 1)

\* regexp.match(text): a match anchored at the start of text only
re_match(regexp, text) ==
    \E j \in MatchEnds(regexp.atoms, 1, text, 1) : regexp.end => j = Len(text) + 1

\* a yaml_pattern is either the source string of a pattern or a compiled one
PatternSource(regexp) == [compiled |-> FALSE, re |-> regexp]
PatternCompiled(regexp) == [compiled |-> TRUE, re |-> regexp]

\* hasattr(re_pattern, 'match')
has_match(p) == p.compiled

\* re.compile(re_pattern)
re_compile(p) == [compiled |-> TRUE, re |-> p.re]

\* the yaml_pattern of the classes of the model: [a-z0-9]+ and [a-z0-9]+\.
Re_Word == Regex(<<Atom(Letters \cup Digits, "plus")>>, FALSE)
Re_Dotted == Regex(<<Atom(Letters \cup Digits, "plus"), Atom({"."}, "one")>>, FALSE)

AllMethods == {"from_map", "to_map", "from_seq", "to_seq", "from_scalar", "to_scalar"}
ScalarMethods == {"from_scalar", "to_scalar"}

\* methods: the from_*/to_* methods the class exposes; classmethods: those of
\* them that are classmethods (inspect.ismethod(Cls.m) holds); automap: whether
\* the class is the AutoMap subclass that auto_map generates
Class(name, yaml_tag, methods, classmethods, yaml_pattern) ==
    [name |-> name, yaml_tag |-> yaml_tag, methods |-> methods,
     classmethods |-> classmethods, yaml_pattern |-> yaml_pattern, automap |-> FALSE]

Cls_A == Class(<<"A">>, NoStr, AllMethods, AllMethods, NoRec)
Cls_B == Class(<<"_", "B">>, <<"A">>, AllMethods, {}, NoRec)
Cls_W == Class(<<"W">>, NoStr, ScalarMethods, ScalarMethods, PatternSource(Re_Word))
Cls_D == Class(<<"D">>, NoStr, ScalarMethods, ScalarMethods, PatternCompiled(Re_Dotted))
\* a class whose name is made of underscores only, declaring __yaml_tag = 'U'
Cls_U == Class(<<"_", "_">>, <<"U">>, AllMethods, AllMethods, NoRec)

\* auto_map(Cls): class AutoMap(Cls, BaseDictWrapper) with the classmethod
\* from_map and the method to_map, renamed to Cls.__name__
auto_map(Cls) ==
    [Cls EXCEPT !.methods = @ \cup {"from_map", "to_map"},
                !.classmethods = (@ \ {"to_map"}) \cup {"from_map"},
                !.automap = TRUE]

(***************************************************************************)
(* Nodes, as the parser hands them to the loader: a kind, the explicit tag *)
(* (NoStr when the node carries none), whether a scalar is plain, and the  *)
(* content: the text of a scalar, the entries of a mapping, the items of a *)
(* sequence.                                                               *)
(***************************************************************************)
MaxText == 2

TextChars == {"a", "1", "."}

Texts == StringsUpTo(TextChars, MaxText)

Node(kind, tag, plain, value) == [kind |-> kind, tag |-> tag, plain |-> plain, value |-> value]

MappingValues == {<<[key |-> <<"a">>, val |-> <<"1">>]>>}

SequenceValues == {<<<<"a">>>>}

YAML_NULL == <<"tag:yaml.org,2002:null">>
YAML_INT == <<"tag:yaml.org,2002:int">>
YAML_FLOAT == <<"tag:yaml.org,2002:float">>
YAML_STR == <<"tag:yaml.org,2002:str">>
YAML_SEQ == <<"tag:yaml.org,2002:seq">>
YAML_MAP == <<"tag:yaml.org,2002:map">>

DefaultTags == {YAML_NULL, YAML_INT, YAML_FLOAT, YAML_STR, YAML_SEQ, YAML_MAP}

(***************************************************************************)
(* The registry: yaml.add_constructor, yaml.add_representer and            *)
(* yaml.add_implicit_resolver, as register_tag.py calls them.  They are    *)
(* PyYAML's: each table is a dictionary that the call assigns into, and    *)
(* the resolver lists are appended to.                                     *)
(***************************************************************************)
\* d[k] = v on a dictionary
DictSet(d, k, v) == [x \in (DOMAIN d) \cup {k} |-> IF x = k THEN v ELSE d[x]]

\* the mutant of DictSet that keeps an existing entry (d.setdefault(k, v))
DictSetDefault(d, k, v) == IF k \in DOMAIN d THEN d ELSE DictSet(d, k, v)

\* the mutant of add_constructor that keeps the constructor a tag already has
add_constructor_keep_first(constructors, tag, constructor) ==
    DictSetDefault(constructors, tag, constructor)

\* yaml.add_constructor(tag, constructor, Loader=Loader)
add_constructor(constructors, tag, constructor) == DictSet(constructors, tag, constructor)

\* yaml.add_representer(Cls, representer)
add_representer(representers, Cls, representer) == DictSet(representers, Cls, representer)

\* yaml.add_implicit_resolver(tag, regexp): first is None, so the pair is
\* appended to the list that is consulted whatever the first character is
add_implicit_resolver(resolvers, tag, regexp) ==
    [resolvers EXCEPT ![None] = Append(@, [tag |-> tag, regexp |-> regexp])]

\* the resolvers that the YAML library registers itself, by first character,
\* for the texts over TextChars: floats and integers, and null for the empty text
BuiltinResolvers ==
    [k \in TextChars \cup {"", None} |->
        IF k = "1"
        THEN <<[tag |-> YAML_FLOAT,
                regexp |-> Regex(<<Atom(Digits, "plus"), Atom({"."}, "one"),
                                   Atom(Digits, "star")>>, TRUE)],
               [tag |-> YAML_INT, regexp |-> Regex(<<Atom(Digits, "plus")>>, TRUE)]>>
        ELSE IF k = "."
        THEN <<[tag |-> YAML_FLOAT,
                regexp |-> Regex(<<Atom({"."}, "one"), Atom(Digits, "plus")>>, TRUE)]>>
        ELSE IF k = ""
        THEN <<[tag |-> YAML_NULL, regexp |-> Regex(<<>>, TRUE)]>>
        ELSE <<>>]

\* the closures `constructor` that the builders define
Constructor(builder, Cls) ==
    [builder |-> builder, Cls |-> Cls, tag |-> NoStr, reason |-> NoStr]

NotAvailableConstructor(tag, reason) ==
    [builder |-> "yaml_not_available_tag", Cls |-> NoRec, tag |-> tag, reason |-> reason]

\* the closures `representer` that the builders define
Representer(builder, tag) == [builder |-> builder, tag |-> tag]

(***************************************************************************)
(* Decoding: the loader resolves the tag of a node, looks the tag up in    *)
(* yaml_constructors and calls the constructor found with the node.        *)
(***************************************************************************)
Str(token) == <<token>>

Raise(exc, args) ==
    [status |-> "raise", exc |-> exc, args |-> args, value |-> NoRec, call |-> NoRec]

Return(value, call) ==
    [status |-> "value", exc |-> None, args |-> <<>>, value |-> value, call |-> call]

RECURSIVE LastMatch(_, _)
\* the mutant of FirstMatch in which a later matching pattern wins
LastMatch(resolvers, text) ==
    IF resolvers = <<>> THEN NoStr
    ELSE IF re_match(resolvers[Len(resolvers)].regexp, text)
         THEN resolvers[Len(resolvers)].tag
    ELSE LastMatch(SubSeq(resolvers, 1, Len(resolvers) - 1), text)

RECURSIVE FirstMatch(_, _)
\* for tag, regexp in resolvers: if regexp.match(value): return tag
FirstMatch(resolvers, text) ==
    IF resolvers = <<>> THEN NoStr
    ELSE IF re_match(resolvers[1].regexp, text) THEN resolvers[1].tag
    ELSE FirstMatch(Tail(resolvers), text)

DefaultTag(kind) ==
    IF kind = "scalar" THEN YAML_STR
    ELSE IF kind = "sequence" THEN YAML_SEQ
    ELSE YAML_MAP

\* Resolver.resolve(kind, value, implicit): the patterns are consulted for a
\* scalar whose first implicit flag is set; the lists of the first character
\* of the text come before the list registered with first=None
resolve(resolvers, kind, value, implicit) ==
    IF kind = "scalar" /\ implicit
    THEN LET candidates == (IF value = <<>> THEN resolvers[""] ELSE resolvers[value[1]])
                           \o resolvers[None]
             tag == FirstMatch(candidates, value)
         IN IF tag # NoStr THEN tag ELSE DefaultTag(kind)
    ELSE DefaultTag(kind)

\* the tag of a node: its explicit tag, or the tag the resolver gives it (a
\* scalar is implicit when it is plain)
NodeTag(resolvers, node) ==
    IF node.tag # NoStr THEN node.tag
    ELSE resolve(resolvers, node.kind, node.value, node.kind = "scalar" /\ node.plain)

\* ConstructorError: expected a <kind> node
ExpectedNode(kind) == Raise("ConstructorError", <<Str("expected node"), Str(kind)>>)

\* the mutant of construct_scalar without the check of the node's kind
construct_scalar_unchecked(node) == Return(node.value, NoRec)

\* loader.construct_scalar(node): checks that the node is a scalar, returns its text
construct_scalar(node) ==
    IF node.kind # "scalar" THEN ExpectedNode("scalar") ELSE Return(node.value, NoRec)

\* loader.construct_mapping(node, deep=True): checks that the node is a mapping
construct_mapping(node) ==
    IF node.kind # "mapping" THEN ExpectedNode("mapping") ELSE Return(node.value, NoRec)

\* loader.construct_sequence(node, deep=True): checks that the node is a sequence
construct_sequence(node) ==
    IF node.kind # "sequence" THEN ExpectedNode("sequence") ELSE Return(node.value, NoRec)

\* a call of a from_* method of Cls
MethodCall(Cls, method, bound, arg) ==
    LET call == [cls |-> Cls.name, method |-> method, bound |-> bound, arg |-> arg]
    IN Return([cls |-> Cls.name, by |-> method, arg |-> arg], call)

\* if ismethod(Cls.m): return Cls.m(arg)  else: return Cls().m_inst(arg)
InvokeFrom(Cls, m, m_inst, arg) ==
    IF m \notin Cls.methods THEN Raise("AttributeError", <<Str(m)>>)
    ELSE IF m \in Cls.classmethods THEN MethodCall(Cls, m, "class", arg)
    ELSE IF m_inst \notin Cls.methods THEN Raise("AttributeError", <<Str(m_inst)>>)
    ELSE MethodCall(Cls, m_inst, "instance", arg)

\* yaml_map.constructor(loader, node)
yaml_map_constructor(Cls, node) ==
    LET map == construct_mapping(node)
    IN IF map.status = "raise" THEN map
       ELSE InvokeFrom(Cls, "from_map", "from_map", map.value)

\* yaml_seq.constructor(loader, node)
yaml_seq_constructor(Cls, node) ==
    LET seq == construct_sequence(node)
    IN IF seq.status = "raise" THEN seq
       ELSE InvokeFrom(Cls, "from_seq", "from_seq", seq.value)

\* yaml_scalar.constructor(loader, node); the else branch calls from_seq
yaml_scalar_constructor(Cls, node) ==
    LET scalar == construct_scalar(node)
    IN IF scalar.status = "raise" THEN scalar
       ELSE InvokeFrom(Cls, "from_scalar", "from_seq", scalar.value)

\* the mutant of the constructor of yaml_not_available_tag that raises without
\* the reason
not_available_constructor_noreason(tag, reason, node) ==
    Raise("NotAvailableTagError", <<tag>>)

\* yaml_not_available_tag.constructor(loader, node)
not_available_constructor(tag, reason, node) ==
    Raise("NotAvailableTagError", <<tag, reason>>)

\* constructor(loader, node) for a closure of yaml_constructors
CallConstructor(c, node) ==
    IF c.builder = "yaml_map" THEN yaml_map_constructor(c.Cls, node)
    ELSE IF c.builder = "yaml_seq" THEN yaml_seq_constructor(c.Cls, node)
    ELSE IF c.builder = "yaml_scalar" THEN yaml_scalar_constructor(c.Cls, node)
    ELSE not_available_constructor(c.tag, c.reason, node)

\* Loader.construct_object(node) for a node of tag `tag`: the constructor
\* registered for the tag, else the library's own for its default tags
construct_object(constructors, tag, node) ==
    IF tag \in DOMAIN constructors THEN CallConstructor(constructors[tag], node)
    ELSE IF tag \in DefaultTags
    THEN Return([cls |-> tag, by |-> "builtin", arg |-> node.value], NoRec)
    ELSE Raise("ConstructorError",
               <<Str("could not determine a constructor for the tag")>>)

(***************************************************************************)
(* The builders.  Each returns the tables as its calls leave them.         *)
(***************************************************************************)
MaxResolvers == 2

Registered(builder, tag, constructor, status, exc) ==
    [op |-> "register", builder |-> builder, tag |-> tag,
     constructor |-> constructor, status |-> status, exc |-> exc]

\* the body shared by yaml_map, yaml_seq and yaml_scalar: add_constructor
\* for the tag of Cls, add_representer for Cls
RegisterClass(builder, Cls) ==
    LET tag == TagOf(Cls)
    IN /\ yaml_constructors' = add_constructor(yaml_constructors, tag, Constructor(builder, Cls))
       /\ yaml_representers' = add_representer(yaml_representers, Cls, Representer(builder, tag))

\* yaml_map(Cls)
YamlMap(Cls) ==
    /\ RegisterClass("yaml_map", Cls)
    /\ outcome' = Registered("yaml_map", TagOf(Cls), Constructor("yaml_map", Cls), "ok", None)
    /\ UNCHANGED <<yaml_implicit_resolvers, normVars, recVars>>

\* yaml_seq(Cls)
YamlSeq(Cls) ==
    /\ RegisterClass("yaml_seq", Cls)
    /\ outcome' = Registered("yaml_seq", TagOf(Cls), Constructor("yaml_seq", Cls), "ok", None)
    /\ UNCHANGED <<yaml_implicit_resolvers, normVars, recVars>>

\* yaml_scalar(Cls)
YamlScalar(Cls) ==
    /\ RegisterClass("yaml_scalar", Cls)
    /\ outcome' = Registered("yaml_scalar", TagOf(Cls), Constructor("yaml_scalar", Cls),
                             "ok", None)
    /\ UNCHANGED <<yaml_implicit_resolvers, normVars, recVars>>

\* yaml_auto_map(Cls) = yaml_map(auto_map(Cls))
YamlAutoMap(Cls) ==
    /\ RegisterClass("yaml_map", auto_map(Cls))
    /\ outcome' = Registered("yaml_auto_map", TagOf(auto_map(Cls)),
                             Constructor("yaml_map", auto_map(Cls)), "ok", None)
    /\ UNCHANGED <<yaml_implicit_resolvers, normVars, recVars>>

\* yaml_implicit_scalar(Cls): yaml_scalar(Cls) first; reading Cls.yaml_pattern
\* raises AttributeError when the class has none, after the registration
YamlImplicitScalar(Cls) ==
    /\ Len(yaml_implicit_resolvers[None]) < MaxResolvers
    /\ RegisterClass("yaml_scalar", Cls)
    /\ IF Cls.yaml_pattern = NoRec
       THEN /\ outcome' = Registered("yaml_implicit_scalar", TagOf(Cls),
                                     Constructor("yaml_scalar", Cls), "raise", "AttributeError")
            /\ UNCHANGED yaml_implicit_resolvers
       ELSE LET re_pattern == IF has_match(Cls.yaml_pattern) THEN Cls.yaml_pattern
                              ELSE re_compile(Cls.yaml_pattern)
            IN /\ yaml_implicit_resolvers' =
                      add_implicit_resolver(yaml_implicit_resolvers, TagOf(Cls), re_pattern.re)
               /\ outcome' = Registered("yaml_implicit_scalar", TagOf(Cls),
                                        Constructor("yaml_scalar", Cls), "ok", None)
    /\ UNCHANGED <<normVars, recVars>>

\* yaml_not_available_tag(tag, reason)
YamlNotAvailableTag(tag, reason) ==
    /\ yaml_constructors' = add_constructor(yaml_constructors, <<"!">> \o tag,
                                            NotAvailableConstructor(tag, reason))
    /\ outcome' = Registered("yaml_not_available_tag", <<"!">> \o tag,
                             NotAvailableConstructor(tag, reason), "ok", None)
    /\ UNCHANGED <<yaml_representers, yaml_implicit_resolvers, normVars, recVars>>

\* the loader decodes one node
Decode(node) ==
    LET tag == NodeTag(yaml_implicit_resolvers, node)
    IN /\ outcome' = [op |-> "decode", node |-> node, tag |-> tag,
                      result |-> construct_object(yaml_constructors, tag, node)]
       /\ UNCHANGED <<yaml_constructors, yaml_representers, yaml_implicit_resolvers,
                      normVars, recVars>>

\* the inputs of the builders and of the loader
MapClasses == {Cls_A}
SeqClasses == {Cls_A}
ScalarClasses == {Cls_B}
AutoMapClasses == {Cls_B}
ImplicitClasses == {Cls_A, Cls_W, Cls_D}
UnavailableTags == {<<"A">>}
Reasons == {Str("removed in v3"), Str("not compiled in")}
NodeTags == {<<"!", "A">>, <<"!", "X">>}

DecodeNodes ==
    {Node("scalar", NoStr, TRUE, t) : t \in Texts}
    \cup {Node("scalar", NoStr, FALSE, <<"a">>)}
    \cup {Node("scalar", tg, TRUE, <<"a">>) : tg \in NodeTags}
    \cup {Node("mapping", tg, FALSE, v) : tg \in NodeTags \cup {NoStr}, v \in MappingValues}
    \cup {Node("sequence", tg, FALSE, v) : tg \in NodeTags \cup {NoStr}, v \in SequenceValues}

RegInit ==
    /\ yaml_constructors = <<>>
    /\ yaml_representers = <<>>
    /\ yaml_implicit_resolvers = BuiltinResolvers
    /\ outcome = NoOutcome

(***************************************************************************)
(* Dictionaries and records.  The heap is the sequence of the objects      *)
(* allocated so far; an object is a raw dict or an instance of             *)
(* BaseDictWrapper or of an AutoMap class, with the entries of the dict,   *)
(* or of the instance's __dict__, in insertion order.  A value is an       *)
(* integer, a list, None or a reference to an object of the heap.          *)
(***************************************************************************)
MaxObj == 3

IntV(n) == [t |-> "int", v |-> n]
ListV == [t |-> "list", v |-> 0]
NoneV == [t |-> "none", v |-> 0]
RefV(id) == [t |-> "ref", v |-> id]

\* the __dict__ of the instance id, which is a raw dict itself
DictOf(id) == [t |-> "dictof", v |-> id]

Object(cls, items) == [cls |-> cls, items |-> items]

Item(key, val) == [key |-> key, val |-> val]

\* type(val) is dict
IsRawDict(h, val) == (val.t = "ref" /\ h[val.v].cls = "dict") \/ val.t = "dictof"

\* the entries of the raw dict val
DictItems(h, val) == h[val.v].items

\* val is an instance of BaseDictWrapper or of an AutoMap class
IsRecord(h, val) == val.t = "ref" /\ h[val.v].cls # "dict"

\* key in d
HasKey(items, key) == \E i \in DOMAIN items : items[i].key = key

\* d[key]
Lookup(items, key) == items[CHOOSE i \in DOMAIN items : items[i].key = key].val

\* the mutant of d[key] = val that keeps the value of an existing key
DictStore_keep(items, key, val) ==
    IF HasKey(items, key) THEN items ELSE Append(items, Item(key, val))

\* d[key] = val: an existing key keeps its place, a new key comes last
DictStore(items, key, val) ==
    IF HasKey(items, key)
    THEN [i \in DOMAIN items |-> IF items[i].key = key THEN Item(key, val) ELSE items[i]]
    ELSE Append(items, Item(key, val))

RECURSIVE setitem(_, _, _, _)
RECURSIVE BaseDictWrapper(_, _)
RECURSIVE BaseDictWrapper_init(_, _, _, _)

\* the mutant of __setitem__ that stores a raw dict as it is
setitem_nowrap(h, self, key, val) ==
    [h EXCEPT ![self].items = DictStore(@, normalize_attr(key), val)]

\* the mutant of __setitem__ that stores under the key as given
setitem_rawkey(h, self, key, val) ==
    LET w == IF IsRawDict(h, val) THEN BaseDictWrapper(h, val)
             ELSE [heap |-> h, val |-> val]
    IN [w.heap EXCEPT ![self].items = DictStore(@, key, w.val)]

\* BaseDictWrapper.__setitem__(self, key, val); returns the heap
setitem(h, self, key, val) ==
    LET w == IF IsRawDict(h, val) THEN BaseDictWrapper(h, val)
             ELSE [heap |-> h, val |-> val]
    IN [w.heap EXCEPT ![self].items = DictStore(@, normalize_attr(key), w.val)]

\* BaseDictWrapper.__init__(self, d): for attr in d: self[attr] = d[attr],
\* from the i-th entry of d on; returns the heap
BaseDictWrapper_init(h, self, d, i) ==
    IF i > Len(DictItems(h, d)) THEN h
    ELSE BaseDictWrapper_init(setitem(h, self, DictItems(h, d)[i].key, DictItems(h, d)[i].val),
                              self, d, i + 1)

\* BaseDictWrapper(d): a new instance, initialised from the dict d
BaseDictWrapper(h, d) ==
    LET self == Len(h) + 1
    IN [heap |-> BaseDictWrapper_init(Append(h, Object("BaseDictWrapper", <<>>)), self, d, 1),
        val |-> RefV(self)]

Returned(h, val) == [heap |-> h, val |-> val, exc |-> None]

Raised(h, exc) == [heap |-> h, val |-> NoneV, exc |-> exc]

\* if type(elem) is dict: return BaseDictWrapper(elem)  else: return elem
WrapOnRead(h, elem) ==
    IF IsRawDict(h, elem)
    THEN LET w == BaseDictWrapper(h, elem) IN Returned(w.heap, w.val)
    ELSE Returned(h, elem)

\* the mutant of get that returns the stored value as it is
get_nowrap(h, self, key, default) ==
    LET nkey == normalize_attr(key)
    IN Returned(h, IF HasKey(h[self].items, nkey) THEN Lookup(h[self].items, nkey)
                   ELSE default)

\* the mutant of __getitem__ that returns the stored value as it is
getitem_nowrap(h, self, key) ==
    LET nkey == normalize_attr(key)
    IN IF ~HasKey(h[self].items, nkey) THEN Raised(h, "KeyError")
       ELSE Returned(h, Lookup(h[self].items, nkey))

\* BaseDictWrapper.__getitem__(self, key)
getitem(h, self, key) ==
    LET nkey == normalize_attr(key)
    IN IF ~HasKey(h[self].items, nkey) THEN Raised(h, "KeyError")
       ELSE WrapOnRead(h, Lookup(h[self].items, nkey))

\* BaseDictWrapper.get(self, key, default)
get(h, self, key, default) ==
    LET nkey == normalize_attr(key)
        elem == IF HasKey(h[self].items, nkey) THEN Lookup(h[self].items, nkey)
                ELSE default
    IN WrapOnRead(h, elem)

\* self.field: the entry of the instance's __dict__, as it is
getattr(h, self, field) ==
    IF ~HasKey(h[self].items, field) THEN Raised(h, "AttributeError")
    ELSE Returned(h, Lookup(h[self].items, field))

\* self.field = val: assigns into the instance's __dict__; returns the heap
setattr(h, self, field, val) ==
    [h EXCEPT ![self].items = DictStore(@, field, val)]

RECURSIVE from_map_loop(_, _, _, _)
\* for attr in d: new[attr] = d[attr], over the entries `items` of d from the
\* i-th on; returns the heap
from_map_loop(h, new, items, i) ==
    IF i > Len(items) THEN h
    ELSE from_map_loop(setitem(h, new, items[i].key, items[i].val), new, items, i + 1)

\* AutoMap.from_map(d) for the entries `items` of d
from_map(h, items) ==
    LET new == Len(h) + 1
    IN Returned(from_map_loop(Append(h, Object("AutoMap", <<>>)), new, items, 1), RefV(new))

\* AutoMap.to_map(self): the instance's own __dict__
to_map(h, self) == DictOf(self)

(***************************************************************************)
(* The operations on records, as a caller runs them.                       *)
(***************************************************************************)
Did(op, res) == [op |-> op, val |-> res.val, exc |-> res.exc]

Ids == 1..Len(heap)

Dicts == {i \in Ids : heap[i].cls = "dict"}

Records == {i \in Ids : heap[i].cls # "dict"}

AutoMaps == {i \in Ids : heap[i].cls = "AutoMap"}

\* the record the caller populates: the first one built; the records built
\* after it are only read
Populated == {i \in AutoMaps : \A j \in AutoMaps : i <= j}

\* the keys handed to the indexed operations, and the field names
Label_a_b == <<"a", " ", "b">>
Label_a_slash_b == <<"a", "/", "b">>
Field_a_b == <<"a", "_", "b">>
Field_c == <<"c">>

Labels == {Label_a_b, Label_a_slash_b, Field_a_b}

Fields == {Field_a_b}

\* the values handed to the indexed and to the field assignments
ArgValues == {IntV(1)} \cup {RefV(i) : i \in Ids}

FieldValues == {ListV} \cup {RefV(d) : d \in Dicts}

\* the dict literals a caller builds: one entry, two entries whose keys
\* collide once normalized, two entries with normalized keys
DictLiterals ==
    {<<Item(Field_a_b, val)>> : val \in {IntV(1)} \cup {RefV(d) : d \in Dicts}}
    \cup {<<Item(Label_a_b, IntV(1)), Item(Label_a_slash_b, IntV(2))>>}

\* the mappings handed to from_map: a raw dict, or the to_map() of a record
MapSources == {RefV(d) : d \in Dicts} \cup {DictOf(r) : r \in AutoMaps}

RecInit ==
    /\ heap = <<>>
    /\ ret = NoOutcome

\* d = {...}
NewDict(items) ==
    /\ Len(heap) < MaxObj
    /\ heap' = Append(heap, Object("dict", items))
    /\ ret' = Did("dict", Returned(heap', RefV(Len(heap) + 1)))
    /\ UNCHANGED <<normVars, regVars>>

\* a = A() for an auto_map class A
NewRecord ==
    /\ Len(heap) < MaxObj
    /\ AutoMaps = {}
    /\ heap' = Append(heap, Object("AutoMap", <<>>))
    /\ ret' = Did("new", Returned(heap', RefV(Len(heap) + 1)))
    /\ UNCHANGED <<normVars, regVars>>

\* A.from_map(m) for a raw dict m, or for m = r.to_map(): what the map binding
\* of yaml_auto_map decodes from what it encodes
FromMap(m) ==
    LET res == from_map(heap, DictItems(heap, m))
    IN /\ Len(res.heap) <= MaxObj
       /\ heap' = res.heap
       /\ ret' = Did(IF m.t = "ref" THEN "from_map" ELSE "from_to_map", res)
       /\ UNCHANGED <<normVars, regVars>>

\* r[key] = val
SetItem(r, key, val) ==
    LET h == setitem(heap, r, key, val)
    IN /\ Len(h) <= MaxObj
       /\ heap' = h
       /\ ret' = Did("setitem", Returned(h, NoneV))
       /\ UNCHANGED <<normVars, regVars>>

\* r.field = val
SetAttr(r, field, val) ==
    /\ heap' = setattr(heap, r, field, val)
    /\ ret' = Did("setattr", Returned(heap', NoneV))
    /\ UNCHANGED <<normVars, regVars>>

\* r[key]
GetItem(r, key) ==
    LET res == getitem(heap, r, key)
    IN /\ Len(res.heap) <= MaxObj
       /\ heap' = res.heap
       /\ ret' = Did("getitem", res)
       /\ UNCHANGED <<normVars, regVars>>

\* r.get(key, default)
Get(r, key, default) ==
    LET res == get(heap, r, key, default)
    IN /\ Len(res.heap) <= MaxObj
       /\ heap' = res.heap
       /\ ret' = Did("get", res)
       /\ UNCHANGED <<normVars, regVars>>

\* r.field
GetAttr(r, field) ==
    /\ ret' = Did("getattr", getattr(heap, r, field))
    /\ UNCHANGED <<heap, normVars, regVars>>

InitRec ==
    /\ label = <<>>
    /\ nlabel = <<>>
    /\ RegInit
    /\ RecInit

NextRec ==
    \/ \E items \in DictLiterals : NewDict(items)
    \/ NewRecord
    \/ \E m \in MapSources : FromMap(m)
    \/ \E r \in Populated, key \in Labels \ {Field_a_b}, val \in ArgValues : SetItem(r, key, val)
    \/ \E r \in Populated, field \in Fields, val \in FieldValues : SetAttr(r, field, val)
    \/ \E r \in Records, key \in Labels : GetItem(r, key)
    \/ \E r \in Records, key \in Labels : Get(r, key, NoneV)
    \/ \E r \in Records, field \in Fields : GetAttr(r, field)

SpecRec == InitRec /\ [][NextRec]_vars

(***************************************************************************)
(* Claims about the records.  Each formula applies the operations to the   *)
(* heap of every reachable state.                                          *)
(***************************************************************************)
\* the keys of the entries `items`
KeysOf(items) == {items[i].key : i \in DOMAIN items}

\* the keys under which a record, or a raw dict, holds a raw dict
RawKeys(h, id) == {h[id].items[i].key : i \in {j \in DOMAIN h[id].items :
                                                IsRawDict(h, h[id].items[j].val)}}

\* no record of the heap h holds a raw dict
RawFree(h) == \A i \in 1..Len(h) : h[i].cls # "dict" => RawKeys(h, i) = {}

\* val is a reference to an instance of BaseDictWrapper that h does not hold yet
IsNewWrapper(h, after, val) ==
    /\ val.t = "ref"
    /\ val.v > Len(h)
    /\ val.v <= Len(after)
    /\ after[val.v].cls = "BaseDictWrapper"

\* the keys of the raw dict d are normalized and none of its values is a raw dict
NormalizedFlat(h, d) ==
    /\ \A k \in KeysOf(h[d].items) : normalize_attr(k) = k
    /\ RawKeys(h, d) = {}

\* the entries of to_map(from_map(d))
DecodedEncoded(h, d) ==
    LET res == from_map(h, DictItems(h, RefV(d)))
    IN DictItems(res.heap, to_map(res.heap, res.val.v))

\* the entries of the record from_map(to_map(r)) builds
EncodedDecoded(h, r) ==
    LET res == from_map(h, DictItems(h, to_map(h, r)))
    IN res.heap[res.val.v].items

\* C5 (as stated): from_map(to_map(r)) is a record with the keys and the
\* values of r, and for every raw dict m, to_map(from_map(m)) has the entries
\* of m.
C5_RoundTripBothWays ==
    /\ \A r \in AutoMaps :
          RawKeys(heap, r) = {} => EncodedDecoded(heap, r) = heap[r].items
    /\ \A d \in Dicts : DecodedEncoded(heap, d) = heap[d].items

\* C5: from_map(to_map(r)) is a record with the keys and the values of r, for
\* every record r that holds no raw dict; to_map(from_map(m)) has the
\* normalized keys of m, one entry for each, and it has the very entries of m
\* when the keys of m are normalized already and no value of m is a raw dict.
C5_RoundTrip ==
    /\ \A r \in AutoMaps :
          RawKeys(heap, r) = {} => EncodedDecoded(heap, r) = heap[r].items
    /\ \A d \in Dicts :
          LET out == DecodedEncoded(heap, d)
              nkeys == {normalize_attr(k) : k \in KeysOf(heap[d].items)}
          IN /\ KeysOf(out) = nkeys
             /\ Len(out) = Cardinality(nkeys)
             /\ NormalizedFlat(heap, d) => out = heap[d].items

C5_Witness ==
    /\ ret.op = "from_to_map"
    /\ ret.exc = None
    /\ heap[ret.val.v].items # <<>>
    /\ \E r \in AutoMaps : r # ret.val.v /\ heap[r].items = heap[ret.val.v].items

C8_SameValue ==
    \A r \in Records : \A f \in KeysOf(heap[r].items) :
       getattr(heap, r, f).val = getitem(heap, r, f).val

\* C8: for every stored key f of a record r, r.f returns the stored value;
\* r[f] returns the same value unless it is a raw dict, and then r[f] returns
\* a new BaseDictWrapper while r.f returns the raw dict.
C8_SameValueUnlessRawDict ==
    \A r \in Records : \A f \in KeysOf(heap[r].items) :
       LET elem == Lookup(heap[r].items, f)
           byField == getattr(heap, r, f)
           byIndex == getitem(heap, r, f)
       IN /\ byField = Returned(heap, elem)
          /\ IF IsRawDict(heap, elem)
             THEN /\ IsNewWrapper(heap, byIndex.heap, byIndex.val)
                  /\ byIndex.exc = None
             ELSE byIndex = byField

C8_Witness ==
    /\ ret.op = "getattr"
    /\ ret.exc = None
    /\ IsRawDict(heap, ret.val)
    /\ \E r \in Records : Field_a_b \in RawKeys(heap, r)

\* C9: r[key] = val stores under normalize_attr(key) a new BaseDictWrapper
\* when val is a raw dict, and val itself otherwise, without building any
\* object; when no record holds a raw dict before r[key] = val or before
\* from_map(m), no record holds one after it, the records built for the
\* nested dicts included.
C9_WrappingAtAssignment ==
    /\ \A r \in Records, key \in {Label_a_slash_b, Field_c}, val \in ArgValues \cup {ListV} :
          LET h == setitem(heap, r, key, val)
              nkey == normalize_attr(key)
          IN /\ HasKey(h[r].items, nkey)
             /\ IF IsRawDict(heap, val)
                THEN /\ IsNewWrapper(heap, h, Lookup(h[r].items, nkey))
                     /\ KeysOf(h[Lookup(h[r].items, nkey).v].items)
                           = {normalize_attr(k) : k \in KeysOf(heap[val.v].items)}
                     /\ RawKeys(h, Lookup(h[r].items, nkey).v) = {}
                ELSE /\ Lookup(h[r].items, nkey) = val
                     /\ Len(h) = Len(heap)
             /\ RawFree(heap) => RawFree(h)
    /\ \A m \in MapSources :
          RawFree(heap) => RawFree(from_map(heap, DictItems(heap, m)).heap)

C9_Witness ==
    /\ ret.op = "setitem"
    /\ RawFree(heap)
    /\ \E r \in Populated : \E i \in DOMAIN heap[r].items :
          /\ IsRecord(heap, heap[r].items[i].val)
          /\ heap[heap[r].items[i].val.v].cls = "BaseDictWrapper"
          /\ heap[heap[r].items[i].val.v].items # <<>>

\* the record r holds the raw dict elem under f: two reads, a write under key
\* through the wrapper the first read returned, then a third read
ReadWriteRead(r, f, key) ==
    LET r1 == getitem(heap, r, f)
        r2 == get(r1.heap, r, f, NoneV)
        h3 == setitem(r2.heap, r1.val.v, key, IntV(1))
        r3 == getitem(h3, r, f)
    IN [first |-> r1, second |-> r2, written |-> h3, third |-> r3]

\* C10 (as stated): the wrappers two reads of a stored raw dict return are
\* new and distinct, and a write made through the first is visible in the
\* stored dict and through the wrapper a later read returns.
C10_WritesShared ==
    \A r \in Records : \A f \in RawKeys(heap, r) :
       LET elem == Lookup(heap[r].items, f)
           s == ReadWriteRead(r, f, Field_c)
       IN /\ IsNewWrapper(heap, s.first.heap, s.first.val)
          /\ IsNewWrapper(s.first.heap, s.second.heap, s.second.val)
          /\ HasKey(s.written[elem.v].items, Field_c)
          /\ HasKey(s.third.heap[s.third.val.v].items, Field_c)

\* C10: the wrappers two reads of a stored raw dict return, by r[f] or by
\* r.get(f), are new and distinct, and each holds its own entries, built from
\* those of the dict under their normalized keys: a write made through the
\* first changes that wrapper alone, neither the stored dict, nor the record,
\* nor the wrapper a later read returns.
C10_NewCopyOnEachRead ==
    \A r \in Records : \A f \in RawKeys(heap, r) :
       LET elem == Lookup(heap[r].items, f)
           s == ReadWriteRead(r, f, Field_c)
           nkeys == {normalize_attr(k) : k \in KeysOf(heap[elem.v].items)}
       IN /\ IsNewWrapper(heap, s.first.heap, s.first.val)
          /\ IsNewWrapper(s.first.heap, s.second.heap, s.second.val)
          /\ s.first.val # s.second.val
          /\ KeysOf(s.first.heap[s.first.val.v].items) = nkeys
          /\ KeysOf(s.second.heap[s.second.val.v].items) = nkeys
          /\ HasKey(s.written[s.first.val.v].items, Field_c)
          /\ s.written[elem.v] = heap[elem.v]
          /\ s.written[r] = heap[r]
          /\ s.written[s.second.val.v] = s.second.heap[s.second.val.v]
          /\ IsNewWrapper(s.written, s.third.heap, s.third.val)
          /\ KeysOf(s.third.heap[s.third.val.v].items) = nkeys

C10_Witness ==
    /\ ret.op \in {"getitem", "get"}
    /\ ret.exc = None
    /\ IsRecord(heap, ret.val)
    /\ ret.val.v = Len(heap)
    /\ heap[ret.val.v].cls = "BaseDictWrapper"
    /\ \E r \in Records : RawKeys(heap, r) # {}

InitReg ==
    /\ label = <<>>
    /\ nlabel = <<>>
    /\ RegInit
    /\ RecInit

NextReg ==
    \/ \E Cls \in MapClasses : YamlMap(Cls)
    \/ \E Cls \in SeqClasses : YamlSeq(Cls)
    \/ \E Cls \in ScalarClasses : YamlScalar(Cls)
    \/ \E Cls \in AutoMapClasses : YamlAutoMap(Cls)
    \/ \E Cls \in ImplicitClasses : YamlImplicitScalar(Cls)
    \/ \E tag \in UnavailableTags, reason \in Reasons : YamlNotAvailableTag(tag, reason)
    \/ \E node \in DecodeNodes : Decode(node)

SpecReg == InitReg /\ [][NextReg]_vars

(***************************************************************************)
(* The builders alone, applied to types with and without a __yaml_tag of   *)
(* their own, with and without leading underscores in their names.         *)
(***************************************************************************)
TagClasses == {Cls_A, Cls_B, Cls_U}

NextTag ==
    \/ \E Cls \in TagClasses : YamlMap(Cls)
    \/ \E Cls \in TagClasses : YamlSeq(Cls)
    \/ \E Cls \in TagClasses : YamlScalar(Cls)
    \/ \E Cls \in TagClasses : YamlAutoMap(Cls)
    \/ \E Cls \in TagClasses \cup {Cls_W} : YamlImplicitScalar(Cls)

SpecTag == InitReg /\ [][NextTag]_vars

(***************************************************************************)
(* Claims about the registry, the decoding and the implicit resolver.      *)
(***************************************************************************)
IsRegister == outcome.op = "register"

IsDecode == outcome.op = "decode"

\* C1 as stated: a registration for a tag that already has a binding fails with
\* DuplicateTagError and leaves the registry unchanged, so that the binding of a
\* tag is never replaced.
C1_DuplicateRejected ==
    [][(outcome'.op = "register" /\ outcome'.tag \in DOMAIN yaml_constructors)
          => /\ outcome'.status = "raise"
             /\ outcome'.exc = "DuplicateTagError"
             /\ yaml_constructors' = yaml_constructors]_vars

\* C1 amended: no builder call raises DuplicateTagError; after a builder call the
\* tag resolves to the constructor that this call registered, whether or not the
\* tag had a binding before (the latest registration wins).
C1_LastRegistrationWins ==
    IsRegister =>
        /\ outcome.exc # "DuplicateTagError"
        /\ outcome.tag \in DOMAIN yaml_constructors
        /\ yaml_constructors[outcome.tag] = outcome.constructor

\* yaml_seq(A) has just replaced the binding that yaml_scalar(_B), whose tag
\* override is A, had registered for !A
C1_Witness ==
    /\ IsRegister
    /\ outcome.builder = "yaml_seq"
    /\ outcome.tag = <<"!", "A">>
    /\ Cls_B \in DOMAIN yaml_representers
    /\ yaml_representers[Cls_B].tag = <<"!", "A">>
    /\ yaml_constructors[<<"!", "A">>].Cls = Cls_A

\* the kind of node that the from_* method of a builder is meant for
KindOfBuilder(builder) ==
    IF builder = "yaml_map" THEN "mapping"
    ELSE IF builder = "yaml_seq" THEN "sequence"
    ELSE "scalar"

DecodeResult(cs, node) ==
    construct_object(cs, NodeTag(yaml_implicit_resolvers, node), node)

\* C3 as stated: once yaml_not_available_tag(tag, reason) has run, every later
\* decode of a node carrying the tag fails with NotAvailableTagError(tag, reason):
\* if decoding the nodes of a tag fails that way now, it fails that way after
\* any further step.
C3_UnavailableForEver ==
    [][\A t \in DOMAIN yaml_constructors :
          yaml_constructors[t].builder = "yaml_not_available_tag"
              => \A node \in {n \in DecodeNodes : n.tag = t} :
                    DecodeResult(yaml_constructors', node)
                        = Raise("NotAvailableTagError",
                                <<yaml_constructors[t].tag, yaml_constructors[t].reason>>)]_vars

\* C3 amended: while the latest registration for a tag is
\* yaml_not_available_tag(tag, reason), every decode of a node carrying the tag,
\* whatever its kind, raises NotAvailableTagError(tag, reason) and returns no value.
C3_UnavailableWhileLatest ==
    (IsDecode /\ outcome.tag \in DOMAIN yaml_constructors
              /\ yaml_constructors[outcome.tag].builder = "yaml_not_available_tag") =>
        LET c == yaml_constructors[outcome.tag]
        IN /\ <<"!">> \o c.tag = outcome.tag
           /\ outcome.result.status = "raise"
           /\ outcome.result.exc = "NotAvailableTagError"
           /\ outcome.result.args = <<c.tag, c.reason>>
           /\ outcome.result.value = NoRec
           /\ outcome.result.call = NoRec

\* a sequence node tagged !A was decoded while !A was registered as unavailable
C3_Witness ==
    /\ IsDecode
    /\ outcome.node.kind = "sequence"
    /\ outcome.node.tag = <<"!", "A">>
    /\ outcome.tag \in DOMAIN yaml_constructors
    /\ yaml_constructors[outcome.tag].builder = "yaml_not_available_tag"
    /\ yaml_constructors[outcome.tag].reason = Str("removed in v3")
    /\ outcome.result.exc = "NotAvailableTagError"

\* the patterns registered through yaml_implicit_scalar, in registration order
RegisteredPatterns == yaml_implicit_resolvers[None]

RegisteredTags == {RegisteredPatterns[i].tag : i \in DOMAIN RegisteredPatterns}

Min(S) == CHOOSE x \in S : \A y \in S : x <= y

\* the decoded node is an untagged plain scalar
IsImplicitScalar(node) == node.kind = "scalar" /\ node.tag = NoStr /\ node.plain

\* one of the library's own resolvers matches the text
BuiltinMatches(text) ==
    LET own == IF text = <<>> THEN BuiltinResolvers[""] ELSE BuiltinResolvers[text[1]]
    IN \E i \in DOMAIN own : re_match(own[i].regexp, text)

\* C4 as stated: an untagged scalar resolves to the tag of the earliest
\* registered pattern that matches the full text, and to no registered tag when
\* no pattern matches the full text.
C4_FirstFullMatch ==
    (IsDecode /\ IsImplicitScalar(outcome.node)) =>
        LET full == {i \in DOMAIN RegisteredPatterns :
                        re_fullmatch(RegisteredPatterns[i].regexp, outcome.node.value)}
        IN IF full # {} THEN outcome.tag = RegisteredPatterns[Min(full)].tag
           ELSE outcome.tag \notin RegisteredTags

\* C4 amended: an untagged plain scalar that no resolver of the library itself
\* matches resolves to the tag of the earliest registered pattern that matches
\* at the start of the text (regexp.match: a prefix is enough), and to the
\* default string tag when no registered pattern does; a tagged node keeps its
\* tag, and a quoted scalar, a mapping and a sequence get the default tag of
\* their kind, whatever the patterns.
C4_FirstPrefixMatch ==
    IsDecode =>
        LET node == outcome.node
            hits == {i \in DOMAIN RegisteredPatterns :
                        re_match(RegisteredPatterns[i].regexp, node.value)}
        IN /\ (IsImplicitScalar(node) /\ ~BuiltinMatches(node.value))
                  => IF hits # {} THEN outcome.tag = RegisteredPatterns[Min(hits)].tag
                     ELSE outcome.tag = YAML_STR
           /\ node.tag # NoStr => outcome.tag = node.tag
           /\ (node.tag = NoStr /\ ~IsImplicitScalar(node))
                  => outcome.tag = DefaultTag(node.kind)

\* two patterns are registered, both match a prefix of the text a. and only
\* the second matches it wholly; the text resolved to the first
C4_Witness ==
    /\ IsDecode
    /\ IsImplicitScalar(outcome.node)
    /\ outcome.node.value = <<"a", ".">>
    /\ Len(RegisteredPatterns) = 2
    /\ RegisteredPatterns[1].tag = <<"!", "W">>
    /\ RegisteredPatterns[2].tag = <<"!", "D">>
    /\ outcome.tag = <<"!", "W">>

\* the constructor that decoded the node of the last decode, NoRec if none did
DecodedBy ==
    IF IsDecode /\ outcome.tag \in DOMAIN yaml_constructors
    THEN yaml_constructors[outcome.tag]
    ELSE NotAvailableConstructor(NoStr, NoStr)

\* C11: decoding a scalar node whose tag was registered with yaml_scalar returns
\* what from_scalar of the type returns for the text of the node, called on the
\* class when it is a classmethod and on a new instance otherwise, and calls no
\* other method of the type.
C11_ScalarDecodeCallsFromScalar ==
    (/\ IsDecode
     /\ outcome.node.kind = "scalar"
     /\ DecodedBy.builder = "yaml_scalar"
     /\ "from_scalar" \in DecodedBy.Cls.methods)
    => \E bound \in {"class", "instance"} :
          outcome.result = MethodCall(DecodedBy.Cls, "from_scalar", bound, outcome.node.value)

\* a scalar node was decoded for a type whose from_scalar is a normal method
C11_Witness ==
    /\ IsDecode
    /\ outcome.node.kind = "scalar"
    /\ DecodedBy.builder = "yaml_scalar"
    /\ "from_scalar" \in DecodedBy.Cls.methods \ DecodedBy.Cls.classmethods
    /\ outcome.result.status = "value"
    /\ outcome.result.call.method = "from_seq"

\* the tag of the type's own override when it declares one, else of its name
OwnTag(Cls) == <<"!">> \o (IF Cls.yaml_tag # NoStr THEN Cls.yaml_tag ELSE Cls.name)

\* C12: every builder registers a type under '!' followed by the __yaml_tag the
\* type declares, or by the name of the type when it declares none; so does
\* yaml_auto_map, for the type it was given, and so does every builder for a
\* type whose name starts with underscores.
C12_TagIsOverrideOrName ==
    (IsRegister /\ outcome.builder # "yaml_not_available_tag")
    => /\ outcome.tag = OwnTag(outcome.constructor.Cls)
       /\ outcome.tag \in DOMAIN yaml_constructors
       /\ yaml_constructors[outcome.tag] = outcome.constructor

\* a type named with underscores only and declaring __yaml_tag was registered
C12_Witness ==
    /\ IsRegister
    /\ outcome.builder # "yaml_not_available_tag"
    /\ outcome.constructor.Cls.yaml_tag # NoStr
    /\ lstrip_underscore(outcome.constructor.Cls.name) = <<>>
    /\ outcome.tag = <<"!">> \o outcome.constructor.Cls.name

InitNorm ==
    /\ label \in NormLabels
    /\ nlabel = <<>>
    /\ RegInit
    /\ RecInit

\* the first call normalize_attr(label)
Normalize ==
    /\ nlabel = <<>>
    /\ nlabel' = <<normalize_attr(label)>>
    /\ UNCHANGED <<label, regVars, recVars>>

\* normalize_attr applied again to its own result
Renormalize ==
    /\ Len(nlabel) = 1
    /\ nlabel' = Append(nlabel, normalize_attr(nlabel[1]))
    /\ UNCHANGED <<label, regVars, recVars>>

NextNorm == Normalize \/ Renormalize

SpecNorm == InitNorm /\ [][NextNorm]_vars

\* C6: normalization is idempotent: normalize_attr(normalize_attr(s)) = normalize_attr(s)
\* for every label s, the empty label and labels without any word character included.
C6_NormalizeIdempotent ==
    Len(nlabel) = 2 => nlabel[2] = nlabel[1]

\* a label with a leading, a repeated and no trailing underscore was normalized twice
C6_Witness ==
    /\ Len(nlabel) = 2
    /\ label = <<"_", "_", "a">>

====
